---- MODULE Spec2Model ----
(***************************************************************************)
(* Model of validation/MountainHub.py: retrieval of snow observations from *)
(* the MountainHub timeline, elevation lookups, and the join of the two.   *)
(*                                                                         *)
(* Encoding of Python / JSON values                                        *)
(*   - a value that may be None (JSON null) is a sequence of length <= 1:  *)
(*     None is << >>, the value v is <<v>>;                                *)
(*   - a dict is a record with a field `keys` holding the keys that are    *)
(*     present; a field whose key is absent keeps a fixed filler value     *)
(*     that no definition reads;                                           *)
(*   - a float is an integer count of tenths (5.5 is 55);                  *)
(*   - a DataFrame is [columns, rows].                                     *)
(***************************************************************************)
EXTENDS Integers, Sequences, FiniteSets, TLC

VARIABLES
    pc,        \* "idle", "el_data" (inside the batch loop), "returned", "raised"
    op,        \* the function that was called
    arg,       \* its arguments
    i,         \* el_data: offset of the next batch (loop variable of batches)
    requests,  \* the HTTP requests issued so far, in order
    data,      \* the JSON body of the last response (None before any)
    records,   \* el_data: the accumulated result records
    ret,       \* the returned value (None until the call returns)
    err        \* the exception that left the call (NoError until then)

vars == <<pc, op, arg, i, requests, data, records, ret, err>>

-----------------------------------------------------------------------------
(* Bounds of the explored inputs *)

MaxRecords == 2     \* longest `results` list of a timeline response
MaxLen == 3         \* longest exhaustively enumerated coordinate list
MaxBatches == 2     \* long coordinate lists reach MaxBatches full batches (+1)
MaxSize == 3        \* largest small batch size given to batches()
MaxGridSize == 17   \* largest grid_size given to average_elevation

(* Program constants *)

BatchSize == 256    \* el_data: batches(points, 256)
GridCap == 16       \* average_elevation: min(grid_size, 16)

-----------------------------------------------------------------------------
(* Python values *)

None == << >>
Some(v) == <<v>>

Min(a, b) == IF a < b THEN a ELSE b

\* list[a:b] for 0 <= a <= b
Slice(list, a, b) == SubSeq(list, a + 1, Min(b, Len(list)))

NoError == [kind |-> "none", at |-> 0, detail |-> [t |-> "none"]]

\* the outcome of evaluating an expression: a value or a raised exception
Ok(v) == [ok |-> TRUE, value |-> Some(v), error |-> NoError]
Raise(kind, at, detail) ==
    [ok |-> FALSE, value |-> None,
     error |-> [kind |-> kind, at |-> at, detail |-> detail]]

\* d[key] on a missing key: KeyError(key)
KeyError(at, key) == Raise("KeyError", at, [t |-> "key", key |-> key])

-----------------------------------------------------------------------------
(* parse_snow *)

EmptyObj == [keys |-> {}, snowpack_depth |-> None]

\* float(x): the strings Python can convert, in tenths
FloatOf(s) ==
    CASE s = "5.5" -> Ok(55)
      [] s = "3"   -> Ok(30)
      [] OTHER     -> Raise("ValueError", 97, [t |-> "str", str |-> s])

\* obs.get('details', [{}])
ObsDetails(obs) ==
    IF "details" \in obs.keys THEN obs.details ELSE Some(<<Some(EmptyObj)>>)

\* details[0].get('snowpack_depth') if len(details) > 0 and
\* details[0] is not None else None       (len(None) is a TypeError)
SnowDepthRaw(details) ==
    IF details = None
      THEN Raise("TypeError", 87, [t |-> "str", str |-> "len(NoneType)"])
    ELSE LET list == details[1] IN
         IF Len(list) > 0 /\ list[1] # None
           THEN LET first == list[1][1] IN
                Ok(IF "snowpack_depth" \in first.keys
                     THEN first.snowpack_depth ELSE None)
           ELSE Ok(None)

\* a or b
PyOr(a, b) == IF a # None /\ a # Some("") THEN a ELSE b

\* dict.get(key) for the two name fields of actor
ActorGet(actor, key) ==
    IF key \in actor.keys
      THEN (IF key = "full_name" THEN actor.full_name ELSE actor.fullName)
      ELSE None

\* actor.get('full_name') or actor.get('fullName')
AuthorNameSwapped(actor) ==
    PyOr(ActorGet(actor, "fullName"), ActorGet(actor, "full_name"))

AuthorName(actor) ==
    PyOr(ActorGet(actor, "full_name"), ActorGet(actor, "fullName"))

\* float(snow_depth) if (snow_depth is not None and
\*                       snow_depth != 'undefined') else None
SnowDepth(snow_depth) ==
    IF snow_depth # None /\ snow_depth # Some("undefined")
      THEN LET f == FloatOf(snow_depth[1]) IN
           IF f.ok THEN Ok(f.value) ELSE f
      ELSE Ok(None)

\* datetime.fromtimestamp(timestamp / 1000): whole seconds and milliseconds
timestampToDate(timestamp) ==
    IF timestamp = None THEN None
    ELSE Some([seconds |-> timestamp[1] \div 1000, millis |-> timestamp[1] % 1000])

\* the body of parse_snow, in evaluation order
parse_snow(record) ==
    IF "observation" \notin record.keys THEN KeyError(84, "observation")
    ELSE IF "actor" \notin record.keys THEN KeyError(85, "actor")
    ELSE LET obs == record.observation
             actor == record.actor
             raw == SnowDepthRaw(ObsDetails(obs))
         IN
         IF ~raw.ok THEN raw
         ELSE IF "_id" \notin obs.keys THEN KeyError(91, "_id")
         ELSE IF "reported_at" \notin obs.keys THEN KeyError(92, "reported_at")
         ELSE IF "location" \notin obs.keys THEN KeyError(94, "location")
         ELSE IF "type" \notin obs.keys THEN KeyError(96, "type")
         ELSE LET depth == SnowDepth(raw.value[1]) IN
              IF ~depth.ok THEN depth
              ELSE Ok([author_name |-> AuthorName(actor),
                       id          |-> Some(obs.id),
                       timestamp   |-> Some(obs.reported_at),
                       date        |-> timestampToDate(Some(obs.reported_at)),
                       lat         |-> Some(obs.location[2]),
                       long        |-> Some(obs.location[1]),
                       type        |-> Some(obs.type),
                       snow_depth  |-> depth.value[1]])

-----------------------------------------------------------------------------
(* snow_data *)

\* { k:v for k, v in dict.items() if v is not None }
\* (a parameter dict is a function from its keys to values that may be None)
removeEmptyParams(dict) ==
    [k \in {key \in DOMAIN dict : dict[key] # None} |-> dict[k]]

\* int(time.mktime(date.timetuple())) * 1000: a datetime is [seconds, millis]
dateToTimestamp(date) ==
    IF date = None THEN date ELSE Some(date[1].seconds * 1000)

NoBoxParams == [k \in {} |-> None]

make_box(box) ==
    IF box = None THEN NoBoxParams
    ELSE [k \in {"north_east_lat", "north_east_lng",
                 "south_west_lat", "south_west_lng"} |->
            CASE k = "north_east_lat" -> Some(box[1].ymax)
              [] k = "north_east_lng" -> Some(box[1].xmax)
              [] k = "south_west_lat" -> Some(box[1].ymin)
              [] k = "south_west_lng" -> Some(box[1].xmin)]

\* the params dict of snow_data: the four fixed entries, then **make_box(box)
SnowParams(limit, start, end, box) ==
    LET b == make_box(box)
        fixed == {"publisher", "obs_type", "limit", "since", "before"}
    IN removeEmptyParams(
         [k \in fixed \cup DOMAIN b |->
            IF k \in DOMAIN b THEN b[k]
            ELSE CASE k = "publisher" -> Some("all")
                   [] k = "obs_type"  -> Some("snow_conditions")
                   [] k = "limit"     -> limit
                   [] k = "since"     -> dateToTimestamp(start)
                   [] k = "before"    -> dateToTimestamp(end)])

\* 'results' not in data   (never raising would be the bug HasResultsAlways)
HasResultsAlways(body) == TRUE

HasResults(body) == "results" \in body.keys

SnowColumns == {"author_name", "id", "timestamp", "date", "lat", "long",
                "type", "snow_depth"}

\* [ parse_snow(record) for record in records ]: the first exception leaves
\* the comprehension (SnowParsedSkipping drops the record and goes on instead)
RECURSIVE SnowParsedSkipping(_)
SnowParsedSkipping(list) ==
    IF list = << >> THEN Ok(<< >>)
    ELSE LET head == parse_snow(Head(list))
             rest == SnowParsedSkipping(Tail(list))
         IN IF ~head.ok THEN rest
            ELSE Ok(<<head.value[1]>> \o rest.value[1])

RECURSIVE SnowParsed(_)
SnowParsed(list) ==
    IF list = << >> THEN Ok(<< >>)
    ELSE LET head == parse_snow(Head(list)) IN
         IF ~head.ok THEN head
         ELSE LET rest == SnowParsed(Tail(list)) IN
              IF ~rest.ok THEN rest
              ELSE Ok(<<head.value[1]>> \o rest.value[1])

\* pd.DataFrame.from_records(list of dicts): no columns when the list is empty
FromRecords(parsed, columns) ==
    [columns |-> IF parsed = << >> THEN {} ELSE columns, rows |-> parsed]

\* the rows whose flag in `keep` is set, in order (halving keeps the
\* evaluation shallow on long tables)
RECURSIVE SelectRows(_, _)
SelectRows(rows, keep) ==
    IF rows = << >> THEN << >>
    ELSE IF Len(rows) = 1 THEN (IF keep[1] THEN rows ELSE << >>)
    ELSE LET h == Len(rows) \div 2 IN
         SelectRows(SubSeq(rows, 1, h), SubSeq(keep, 1, h))
         \o SelectRows(SubSeq(rows, h + 1, Len(rows)), SubSeq(keep, h + 1, Len(rows)))

\* df.dropna(): drop every row holding a null in any column
\* (dropnaDepthOnly looks at snow_depth alone)
dropnaDepthOnly(df) ==
    [df EXCEPT !.rows =
        SelectRows(df.rows, [n \in 1..Len(df.rows) |->
                               df.rows[n].snow_depth # None])]

dropna(df) ==
    [df EXCEPT !.rows =
        SelectRows(df.rows, [n \in 1..Len(df.rows) |->
                               \A c \in df.columns : df.rows[n][c] # None])]

\* snow_data after the response arrived
SnowDataResult(body, filter) ==
    IF ~HasResults(body)
      THEN Raise("ValueError", 135, [t |-> "body", body |-> body])
    ELSE LET parsed == SnowParsed(body.results) IN
         IF ~parsed.ok THEN parsed
         ELSE LET df == FromRecords(parsed.value[1], SnowColumns) IN
              Ok(IF filter THEN dropna(df) ELSE df)

-----------------------------------------------------------------------------
(* batches, el_data, merge_el_data *)

\* for i in range(0, len(list), size): yield list[i:i + size]
\* (batchesShort is the slice list[i:i + size - 1])
RECURSIVE batchesShortFrom(_, _, _)
batchesShortFrom(list, size, from) ==
    IF from >= Len(list) THEN << >>
    ELSE <<Slice(list, from, from + size - 1)>>
         \o batchesShortFrom(list, size, from + size)

batchesShort(list, size) == batchesShortFrom(list, size, 0)

RECURSIVE batchesFrom(_, _, _)
batchesFrom(list, size, from) ==
    IF from >= Len(list) THEN << >>
    ELSE <<Slice(list, from, from + size)>> \o batchesFrom(list, size, from + size)

batches(list, size) == batchesFrom(list, size, 0)

\* the points whose coordinates go into 'locations': the comprehension of
\* el_data iterates over `points`, the whole argument, not over `batch`.
\* The text "lat,long|lat,long|..." is kept as the list of pairs it encodes.
RequestPoints(points, batch) == points

ElevationParams(locations) == [locations |-> locations, key |-> "GOOGLE_API_KEY"]

parse_elevation(record) == [elevation |-> record.elevation]

ElColumns == {"lat", "long", "elevation"}

\* [{lat, long, **parse_elevation(record)} for point, record in zip(points, records)]
\* (ElParsedShifted pairs every point with the record of its successor)
ElParsedShifted(points, recs) ==
    [k \in 1..Min(Len(points), Len(recs) - 1) |->
        [lat       |-> points[k][1],
         long      |-> points[k][2],
         elevation |-> parse_elevation(recs[k + 1]).elevation]]

ElParsed(points, recs) ==
    [k \in 1..Min(Len(points), Len(recs)) |->
        [lat       |-> points[k][1],
         long      |-> points[k][2],
         elevation |-> parse_elevation(recs[k]).elevation]]

\* list(zip(df['lat'], df['long']))
DfPoints(df) == [k \in 1..Len(df.rows) |-> <<df.rows[k].lat, df.rows[k].long>>]

\* the concatenation of a list of lists
RECURSIVE Concat(_)
Concat(lists) ==
    IF lists = << >> THEN << >>
    ELSE IF Len(lists) = 1 THEN lists[1]
    ELSE LET h == Len(lists) \div 2 IN
         Concat(SubSeq(lists, 1, h)) \o Concat(SubSeq(lists, h + 1, Len(lists)))

\* the rows of `right` that agree with row l on the join columns, in order
Matches(l, right, on) ==
    SelectRows(right.rows,
               [k \in 1..Len(right.rows) |-> \A c \in on : right.rows[k][c] = l[c]])

JoinRow(l, r) ==
    [c \in DOMAIN l \cup DOMAIN r |-> IF c \in DOMAIN l THEN l[c] ELSE r[c]]

\* pd.merge(left, right): inner join on the columns the two frames share,
\* in the order of the left rows; no shared column is a MergeError
Merge(left, right) ==
    LET on == left.columns \cap right.columns IN
    IF on = {}
      THEN Raise("MergeError", 211, [t |-> "str", str |-> "No common columns"])
    ELSE Ok([columns |-> left.columns \cup right.columns,
             rows |-> Concat([k \in 1..Len(left.rows) |->
                        LET m == Matches(left.rows[k], right, on) IN
                        [j \in 1..Len(m) |-> JoinRow(left.rows[k], m[j])]])])

-----------------------------------------------------------------------------
(* intervals, average_elevation *)

\* The generator's body reads `stops`, which is neither a parameter (they are
\* start, end, intervals) nor a local nor a module global: its first step
\* raises NameError, whatever the arguments.
intervals(start, end, n) ==
    Raise("NameError", 31, [t |-> "str", str |-> "stops"])

\* for lat in intervals(ymin, ymax, g): for long in intervals(xmin, xmax, g):
\*     points.append((lat, long))
GridPoints(box, grid_size) ==
    LET lats == intervals(box.ymin, box.ymax, grid_size) IN
    IF ~lats.ok THEN lats
    ELSE LET longs == intervals(box.xmin, box.xmax, grid_size) IN
         IF Len(lats.value[1]) > 0 /\ ~longs.ok THEN longs
         ELSE Ok(Concat([a \in 1..Len(lats.value[1]) |->
                    [b \in 1..Len(longs.value[1]) |->
                        <<lats.value[1][a], longs.value[1][b]>>]]))

RECURSIVE Sum(_)
Sum(list) == IF list = << >> THEN 0 ELSE Head(list) + Sum(Tail(list))

\* average_elevation after the response arrived
AverageResult(body) ==
    IF ~HasResults(body)
      THEN Raise("ValueError", 195, [t |-> "body", body |-> body])
    ELSE LET elevations == [k \in 1..Len(body.results) |-> body.results[k].elevation] IN
         IF elevations = << >>
           THEN Raise("ZeroDivisionError", 199, [t |-> "str", str |-> "division by zero"])
           ELSE Ok(Sum(elevations) \div Len(elevations))

-----------------------------------------------------------------------------
(* Inputs: the records a timeline response may hold *)

Ids == {"a", "b"}
DepthStrings == {"undefined", "5.5", "3", "deep"}

DetailObjs ==
    {EmptyObj} \cup
    {[keys |-> {"snowpack_depth"}, snowpack_depth |-> d] :
        d \in {None} \cup {Some(s) : s \in DepthStrings}}

DetailsValues ==
    {None, Some(<< >>), Some(<<None>>)} \cup {Some(<<Some(o)>>) : o \in DetailObjs}

Observations ==
    {[keys        |-> k,
      id          |-> IF "_id" \in k THEN id ELSE "",
      reported_at |-> IF "reported_at" \in k THEN 1500 ELSE 0,
      location    |-> IF "location" \in k THEN <<10, 20>> ELSE <<0, 0>>,
      type        |-> IF "type" \in k THEN "snow_conditions" ELSE "",
      details     |-> IF "details" \in k THEN d ELSE None] :
        k \in SUBSET {"_id", "reported_at", "location", "type", "details"},
        id \in Ids, d \in DetailsValues}

Actors ==
    {[keys      |-> k,
      full_name |-> IF "full_name" \in k THEN f ELSE None,
      fullName  |-> IF "fullName" \in k THEN g ELSE None] :
        k \in SUBSET {"full_name", "fullName"},
        f \in {None, Some(""), Some("Ann")},
        g \in {None, Some("Bob")}}

NoObservation ==
    [keys |-> {}, id |-> "", reported_at |-> 0, location |-> <<0, 0>>,
     type |-> "", details |-> None]
NoActor == [keys |-> {}, full_name |-> None, fullName |-> None]

RawRecords ==
    {[keys        |-> k,
      observation |-> IF "observation" \in k THEN o ELSE NoObservation,
      actor       |-> IF "actor" \in k THEN a ELSE NoActor] :
        k \in SUBSET {"observation", "actor"},
        o \in Observations, a \in Actors}

\* the records that timeline responses are built from
TimelineRecords ==
    {r \in RawRecords :
        /\ "observation" \in r.keys
        /\ {"_id", "reported_at", "location"} \subseteq r.observation.keys
        /\ r.observation.id = "a"
        /\ r.observation.details \in
              {None,
               Some(<<Some([keys |-> {"snowpack_depth"},
                            snowpack_depth |-> Some("5.5")])>>),
               Some(<<Some([keys |-> {"snowpack_depth"},
                            snowpack_depth |-> Some("undefined")])>>)}
        /\ r.actor.keys \subseteq {"full_name"}
        /\ r.actor.full_name \in {None, Some("Ann")}
        /\ ("full_name" \in r.actor.keys => r.actor.full_name = Some("Ann"))}

SeqsUpTo(S, n) == UNION {[1..m -> S] : m \in 0..n}

ErrorBodies ==
    {[keys |-> {"error"}, results |-> << >>, error |-> "bad"],
     [keys |-> {}, results |-> << >>, error |-> ""]}

ResultsBody(results) == [keys |-> {"results"}, results |-> results, error |-> ""]

TimelineBodies ==
    ErrorBodies \cup {ResultsBody(l) : l \in SeqsUpTo(TimelineRecords, MaxRecords)}

Boxes == {None, Some([ymin |-> 10, ymax |-> 12, xmin |-> 20, xmax |-> 24])}

(* Inputs: coordinate lists and the elevation provider *)

Coords == {<<10, 20>>, <<10, 21>>, <<11, 20>>}

\* a long list of pairwise different coordinates
Ramp(n) == [k \in 1..n |-> <<k, 2 * k>>]

LongLengths == {b * BatchSize + d : b \in 1..MaxBatches, d \in {-1, 0, 1, 44}}

PointLists == SeqsUpTo(Coords, MaxLen) \cup {Ramp(n) : n \in LongLengths}

\* the ground elevation the provider reports for a coordinate
Elevation(point) == 1000 + 7 * point[1] + point[2]

\* the provider's answer to a request for `locations`: one record per
\* location, in order, or a body without `results`
ElevationAnswer(locations) ==
    ResultsBody([k \in 1..Len(locations) |-> [elevation |-> Elevation(locations[k])]])

ElevationBodies(locations) == ErrorBodies \cup {ElevationAnswer(locations)}

\* a snow table as merge_el_data receives it
SnowTable(points) ==
    [columns |-> {"id", "lat", "long"},
     rows |-> [k \in 1..Len(points) |->
                 [id |-> k, lat |-> points[k][1], long |-> points[k][2]]]]

-----------------------------------------------------------------------------
(* Actions *)

NoArg == [t |-> "none"]

Init ==
    /\ pc = "idle"
    /\ op = "none"
    /\ arg = NoArg
    /\ i = 0
    /\ requests = << >>
    /\ data = None
    /\ records = << >>
    /\ ret = None
    /\ err = NoError

\* the call ends: it returns a value or an exception leaves it
Finish(outcome) ==
    /\ pc' = IF outcome.ok THEN "returned" ELSE "raised"
    /\ ret' = outcome.value
    /\ err' = outcome.error

\* parse_snow(record)
ParseSnow ==
    /\ pc = "idle"
    /\ \E record \in RawRecords :
          /\ op' = "parse_snow"
          /\ arg' = [record |-> record]
          /\ Finish(parse_snow(record))
    /\ UNCHANGED <<i, requests, data, records>>

\* snow_data(limit=100, start=None, end=None, box, filter); the provider
\* answers the one request with any body
SnowData ==
    /\ pc = "idle"
    /\ \E box \in Boxes, filter \in BOOLEAN, body \in TimelineBodies :
          /\ op' = "snow_data"
          /\ arg' = [box |-> box, filter |-> filter]
          /\ requests' = <<[url |-> "timeline",
                            params |-> SnowParams(Some(100), None, None, box)]>>
          /\ data' = Some(body)
          /\ Finish(SnowDataResult(body, filter))
    /\ UNCHANGED <<i, records>>

\* batches(list, size), read to its end
Batches ==
    /\ pc = "idle"
    /\ \E list \in PointLists, size \in (1..MaxSize) \cup {BatchSize} :
          /\ (Len(list) > MaxLen => size = BatchSize)
          /\ op' = "batches"
          /\ arg' = [list |-> list, size |-> size]
          /\ Finish(Ok(batches(list, size)))
    /\ UNCHANGED <<i, requests, data, records>>

\* el_data(points) up to the first iteration of its loop
ElData ==
    /\ pc = "idle"
    /\ \E points \in PointLists :
          /\ op' = "el_data"
          /\ arg' = [points |-> points]
    /\ pc' = "el_data"
    /\ i' = 0
    /\ records' = << >>
    /\ UNCHANGED <<requests, data, ret, err>>

\* merge_el_data(df) up to the first iteration of el_data's loop
MergeElData ==
    /\ pc = "idle"
    /\ \E points \in PointLists :
          /\ op' = "merge_el_data"
          /\ arg' = [df |-> SnowTable(points), points |-> DfPoints(SnowTable(points))]
    /\ pc' = "el_data"
    /\ i' = 0
    /\ records' = << >>
    /\ UNCHANGED <<requests, data, ret, err>>

\* one iteration of el_data's loop: the request of one batch and its answer
ElRequest ==
    /\ pc = "el_data"
    /\ i < Len(arg.points)
    /\ LET batch == Slice(arg.points, i, i + BatchSize)
           locations == RequestPoints(arg.points, batch)
       IN
       /\ requests' = Append(requests, [url |-> "elevation",
                                        params |-> ElevationParams(locations)])
       /\ \E body \in ElevationBodies(locations) :
             /\ data' = Some(body)
             /\ IF ~HasResults(body)
                  THEN /\ Finish(Raise("ValueError", 164, [t |-> "body", body |-> body]))
                       /\ UNCHANGED <<i, records>>
                  ELSE /\ records' = records \o body.results
                       /\ i' = i + BatchSize
                       /\ UNCHANGED <<pc, ret, err>>
    /\ UNCHANGED <<op, arg>>

\* the loop of el_data is over: build the table; merge_el_data then joins it
ElReturn ==
    /\ pc = "el_data"
    /\ i >= Len(arg.points)
    /\ LET df == FromRecords(ElParsed(arg.points, records), ElColumns) IN
       IF op = "el_data" THEN Finish(Ok(df)) ELSE Finish(Merge(arg.df, df))
    /\ UNCHANGED <<op, arg, i, requests, data, records>>

\* average_elevation(box, grid_size)
AverageElevation ==
    /\ pc = "idle"
    /\ \E box \in Boxes \ {None}, grid_size \in 1..MaxGridSize :
          /\ op' = "average_elevation"
          /\ arg' = [box |-> box[1], grid_size |-> grid_size]
          /\ LET grid == GridPoints(box[1], Min(grid_size, GridCap)) IN
             IF ~grid.ok
               THEN /\ Finish(grid)
                    /\ UNCHANGED <<requests, data>>
               ELSE \E body \in ElevationBodies(grid.value[1]) :
                      /\ requests' = <<[url |-> "elevation",
                                        params |-> ElevationParams(grid.value[1])]>>
                      /\ data' = Some(body)
                      /\ Finish(AverageResult(body))
    /\ UNCHANGED <<i, records>>

Next ==
    \/ ParseSnow
    \/ SnowData
    \/ Batches
    \/ ElData
    \/ MergeElData
    \/ ElRequest
    \/ ElReturn
    \/ AverageElevation

Spec == Init /\ [][Next]_vars

-----------------------------------------------------------------------------
(* Properties *)

ElOps == {"el_data", "merge_el_data"}
Returned(f) == pc = "returned" /\ op = f
BodyDetail(body) == [t |-> "body", body |-> body]

\* C1: every elevation request of el_data carries at most 256 pairs, and they
\* are exactly the pairs of its own batch points[256*k : 256*(k+1)].
C1_RequestCarriesOwnBatch ==
    op \in ElOps =>
      \A k \in 1..Len(requests) :
         LET locations == requests[k].params.locations IN
         /\ Len(locations) <= BatchSize
         /\ locations = Slice(arg.points, BatchSize * (k - 1), BatchSize * k)

\* C2: with a provider that answers every request with one record per
\* location sent, in order, el_data(points) returns exactly one row per
\* point, row k holding points[k] and the provider's elevation of points[k].
C2_ElDataAligned ==
    Returned("el_data") =>
      /\ Len(ret[1].rows) = Len(arg.points)
      /\ \A k \in 1..Len(arg.points) :
            ret[1].rows[k] = [lat       |-> arg.points[k][1],
                              long      |-> arg.points[k][2],
                              elevation |-> Elevation(arg.points[k])]

C2_Witness ==
    /\ Returned("el_data")
    /\ Len(arg.points) > BatchSize
    /\ Len(requests) >= 2
    /\ Len(ret[1].rows) = Len(arg.points)

\* C3: a response body without `results` makes the retrieval fail at once
\* with that whole body as the error detail: nothing is returned, and el_data
\* issues no further request (the failing request stays the last one).
C3_MissingResultsFails ==
    (data # None /\ "results" \notin data[1].keys) =>
      /\ pc = "raised"
      /\ ret = None
      /\ err.kind = "ValueError"
      /\ err.detail = BodyDetail(data[1])
      /\ (op \in ElOps => Len(requests) = (i \div BatchSize) + 1)

C3_Witness ==
    /\ op = "el_data"
    /\ pc = "raised"
    /\ Len(requests) = 2
    /\ records # << >>
    /\ "results" \notin data[1].keys
    /\ err.detail = BodyDetail(data[1])

RequiredTop == <<"observation", "actor">>
RequiredObs == <<"_id", "reported_at", "location", "type">>

\* the required fields a record lacks, in the order parse_snow reads them
MissingFields(r) ==
    SelectSeq(RequiredTop, LAMBDA f : f \notin r.keys)
    \o (IF "observation" \in r.keys
          THEN SelectSeq(RequiredObs, LAMBDA f : f \notin r.observation.keys)
          ELSE << >>)

Malformed(r) == MissingFields(r) # << >>

\* `details` is not the JSON null
DetailsUsable(r) ==
    ("observation" \in r.keys /\ "details" \in r.observation.keys)
       => r.observation.details # None

SnowResponse ==
    op = "snow_data" /\ data # None /\ "results" \in data[1].keys

C5_GridLattice ==
    (op = "average_elevation" /\ pc # "idle") =>
      LET g == Min(arg.grid_size, GridCap)
          box == arg.box
      IN
      /\ Len(requests) = 1
      /\ LET points == requests[1].params.locations IN
         /\ Len(points) = g * g
         /\ Len(points) <= 256
         /\ \A a \in 1..g, b \in 1..g :
               LET point == points[(a - 1) * g + b] IN
               g > 1 =>
                 /\ (point[1] - box.ymin) * (g - 1) = (a - 1) * (box.ymax - box.ymin)
                 /\ (point[2] - box.xmin) * (g - 1) = (b - 1) * (box.xmax - box.xmin)
         /\ g = 2 => points = << <<box.ymin, box.xmin>>, <<box.ymin, box.xmax>>,
                                 <<box.ymax, box.xmin>>, <<box.ymax, box.xmax>> >>

\* the depth a record's `details` carries, None in the cases C6 lists
ClaimedDepth(obs) ==
    IF "details" \notin obs.keys THEN None
    ELSE IF obs.details = None THEN None
    ELSE IF obs.details[1] = << >> THEN None
    ELSE IF obs.details[1][1] = None THEN None
    ELSE IF "snowpack_depth" \notin obs.details[1][1][1].keys THEN None
    ELSE IF obs.details[1][1][1].snowpack_depth = Some("undefined") THEN None
    ELSE obs.details[1][1][1].snowpack_depth

\* C6: parse_snow never fails because of the shape of `details`: snow_depth
\* is null when `details` is absent, null or empty, when its first element is
\* null, or when its snowpack_depth is absent, null or "undefined"; otherwise
\* it is the numeric value of the first element's snowpack_depth.
C6_SnowDepthFromDetails ==
    (/\ op = "parse_snow"
     /\ ~Malformed(arg.record)
     /\ ClaimedDepth(arg.record.observation) \in {None, Some("5.5"), Some("3")}) =>
      /\ pc = "returned"
      /\ ret[1].snow_depth =
           (CASE ClaimedDepth(arg.record.observation) = None        -> None
              [] ClaimedDepth(arg.record.observation) = Some("5.5") -> Some(55)
              [] ClaimedDepth(arg.record.observation) = Some("3")   -> Some(30))

\* the rows without a null in any of the eight columns, in order
RECURSIVE CompleteRows(_)
CompleteRows(rows) ==
    IF rows = << >> THEN << >>
    ELSE (IF \A c \in SnowColumns : Head(rows)[c] # None
            THEN <<Head(rows)>> ELSE << >>) \o CompleteRows(Tail(rows))

C8_MergeOneRowPerInputRow ==
    (op = "merge_el_data" /\ pc \in {"returned", "raised"}
     /\ (data # None => "results" \in data[1].keys)) =>
      /\ pc = "returned"
      /\ Len(ret[1].rows) = Len(arg.df.rows)
      /\ \A k \in 1..Len(arg.df.rows) :
            ret[1].rows[k] =
               JoinRow(arg.df.rows[k], [elevation |-> Elevation(arg.points[k])])

\* C9: batches(L, s) yields ceil(len(L)/s) non-empty contiguous slices of L,
\* all of s elements except the last, which has at most s, and their
\* concatenation is L.
C9_BatchesPartition ==
    Returned("batches") =>
      LET L == arg.list
          s == arg.size
          b == ret[1]
      IN
      /\ Len(b) = (Len(L) + s - 1) \div s
      /\ \A k \in 1..Len(b) :
            /\ b[k] # << >>
            /\ Len(b[k]) <= s
            /\ (k < Len(b) => Len(b[k]) = s)
            /\ b[k] = SubSeq(L, (k - 1) * s + 1, (k - 1) * s + Len(b[k]))
      /\ Concat(b) = L

C9_Witness ==
    /\ Returned("batches")
    /\ Len(arg.list) = 300
    /\ arg.size = 256
    /\ Len(ret[1]) = 2
    /\ Len(ret[1][1]) = 256
    /\ Len(ret[1][2]) = 44

\* C10 (as stated): author_name is the actor's full_name whenever that field
\* is present, whatever its value; fullName only when full_name is absent;
\* null only when both are absent.
C10_FullNameWheneverPresent ==
    Returned("parse_snow") =>
      LET actor == arg.record.actor IN
      ret[1].author_name =
         (IF "full_name" \in actor.keys THEN actor.full_name
          ELSE IF "fullName" \in actor.keys THEN actor.fullName
          ELSE None)

\* C10 (amended): author_name is the actor's full_name when that field is
\* present with a value that is neither null nor the empty string; in every
\* other case it is the value of fullName, null when fullName is absent.
C10_FullNameUnlessEmpty ==
    Returned("parse_snow") =>
      LET actor == arg.record.actor IN
      ret[1].author_name =
         (IF "full_name" \in actor.keys /\ actor.full_name \notin {None, Some("")}
            THEN actor.full_name
          ELSE IF "fullName" \in actor.keys THEN actor.fullName
          ELSE None)

C10_Witness ==
    /\ Returned("parse_snow")
    /\ {"full_name", "fullName"} \subseteq arg.record.actor.keys
    /\ arg.record.actor.full_name = Some("")
    /\ arg.record.actor.fullName = Some("Bob")
    /\ ret[1].author_name = Some("Bob")

====
